---- MODULE Spec2Model ----
(***************************************************************************)
(* MOBA Team Management System V0.2.0 (src/MOBA.py): the roster editor,    *)
(* its save/load, the role-fit scorer and the optimal role assignment.     *)
(*                                                                         *)
(* Numbers.  The scorer works on Python floats and rounds its result to 2  *)
(* decimals.  Here a percentage is an integer number of hundredths         *)
(* (10000 is 100.00), computed exactly as a fraction and rounded once, to  *)
(* the nearest hundredth; where the exact value lies half-way between two  *)
(* hundredths, the float lies a rounding error to one side and either      *)
(* hundredth is a possible result.                                         *)
(*                                                                         *)
(* Strings.  A name is a sequence of one-character strings, so that        *)
(* str.strip() and Tk's conversion of numeric-looking values are computed  *)
(* and not assumed.                                                        *)
(***************************************************************************)
EXTENDS Integers, Sequences, FiniteSets, TLC

VARIABLES
    players,                \* self.players
    selected_player_index,  \* self.selected_player_index: None or <<i>>, i from 0
    current_mode,           \* self.current_mode
    add_button,             \* state of self.add_button
    update_button,          \* state of self.update_button
    cancel_button,          \* state of self.cancel_button
    player_tree,            \* first column of the rows of self.player_tree
    disk,                   \* the file save_team wrote, as text
    message,                \* how the last handler ended: the title of the box it
                            \* showed, the exception it let escape, or ""
    best_assignment,        \* evaluate_team's best_assignment
    bench_players,          \* show_evaluation_results' bench_players
    percentages,            \* the scorer's last result
    history,                \* history variable: None, or the roster save_team last
                            \* wrote, whether the roster was changed since, and
                            \* whether it was since loaded back from that file
    argument,               \* the arguments of a call of one of the scorer's
                            \* functions on its own, or None
    returned,               \* what that call returned, or None
    tree_selection          \* V0.1.0: self.player_tree.selection(), None or
                            \* <<r>>, r the selected row counted from 1

vars == <<players, selected_player_index, current_mode, add_button, update_button,
          cancel_button, player_tree, disk, message, best_assignment,
          bench_players, percentages, history, argument, returned, tree_selection>>

\* Python's None; a value that may be None is <<>> or a one-element tuple,
\* a function or a non-empty sequence
None == <<>>

-----------------------------------------------------------------------------
(* Configuration: ROLES and SKILLS                                          *)

RoleNames == <<"Top Laner", "Jungler", "Mid Laner", "Bot Laner", "Support">>

ROLES ==
    [r \in {RoleNames[i] : i \in 1..5} |->
        CASE r = "Top Laner" ->
               [primary   |-> <<"Bravery", "Composure", "Concentration">>,
                secondary |-> <<"Communication", "Vision">>]
          [] r = "Jungler" ->
               [primary   |-> <<"Bravery", "Decision", "Vision", "Anticipation",
                                "Communication", "Memory", "Teamwork">>,
                secondary |-> <<"Composure", "Concentration", "Leadership", "Flair">>]
          [] r = "Mid Laner" ->
               [primary   |-> <<"Leadership", "Vision", "Anticipation",
                                "Communication", "Flair">>,
                secondary |-> <<"Bravery", "Composure", "Decision", "Concentration",
                                "Teamwork">>]
          [] r = "Bot Laner" ->
               [primary   |-> <<"Accuracy", "Dexterity">>,
                secondary |-> <<"Composure", "Decision", "Determination", "Leadership",
                                "Vision", "Teamwork", "Flair", "Concentration",
                                "Communication", "Anticipation">>]
          [] r = "Support" ->
               [primary   |-> <<"Leadership", "Vision", "Memory", "Teamwork",
                                "Communication", "Anticipation">>,
                secondary |-> <<"Composure", "Decision", "Concentration">>]]

SKILLS ==
    <<"Accuracy", "Bravery", "Composure", "Decision", "Determination",
      "Leadership", "Stamina", "Vision", "Anticipation", "Communication",
      "Concentration", "Dexterity", "Flair", "Memory", "Quickness", "Teamwork">>

SeqToSet(s) == {s[i] : i \in 1..Len(s)}

SkillSet == SeqToSet(SKILLS)

num_roles == Len(RoleNames)

RoleSet == {RoleNames[i] : i \in 1..num_roles}

-----------------------------------------------------------------------------
(* The role-fit scorer                                                      *)

\* skills.get(skill, 50): a missing skill read as the slider's starting value
SkillGet_default50(skills, skill) == IF skill \in DOMAIN skills THEN skills[skill] ELSE 50

\* skills.get(skill, 0)
SkillGet(skills, skill) == IF skill \in DOMAIN skills THEN skills[skill] ELSE 0

\* apply_diminishing_returns with the last piece starting from 80, not 82
apply_diminishing_returns_dip(skill_value) ==
    IF skill_value <= 70 THEN 10 * skill_value
    ELSE IF skill_value <= 85 THEN 700 + (skill_value - 70) * 8
    ELSE 800 + (skill_value - 85) * 6

\* apply_diminishing_returns with the slope above 85 left at 0.8
apply_diminishing_returns_flat(skill_value) ==
    IF skill_value <= 70 THEN 10 * skill_value
    ELSE 700 + (skill_value - 70) * 8

\* apply_diminishing_returns, in tenths (the slopes are 1, 0.8 and 0.6)
apply_diminishing_returns(skill_value) ==
    IF skill_value <= 70 THEN 10 * skill_value
    ELSE IF skill_value <= 85 THEN 700 + (skill_value - 70) * 8
    ELSE 820 + (skill_value - 85) * 6

\* calculate_age_multiplier with the second band ending before 25
calculate_age_multiplier_open(age) ==
    IF 18 <= age /\ age <= 22 THEN 100
    ELSE IF 23 <= age /\ age < 25 THEN 98
    ELSE IF 26 <= age /\ age <= 28 THEN 95
    ELSE IF age < 18 THEN 90
    ELSE 88

\* calculate_age_multiplier with the "under 18" band starting at 16
calculate_age_multiplier_from16(age) ==
    IF 18 <= age /\ age <= 22 THEN 100
    ELSE IF 23 <= age /\ age <= 25 THEN 98
    ELSE IF 26 <= age /\ age <= 28 THEN 95
    ELSE IF 16 <= age /\ age < 18 THEN 90
    ELSE 88

\* calculate_age_multiplier, in hundredths
calculate_age_multiplier(age) ==
    IF 18 <= age /\ age <= 22 THEN 100
    ELSE IF 23 <= age /\ age <= 25 THEN 98
    ELSE IF 26 <= age /\ age <= 28 THEN 95
    ELSE IF age < 18 THEN 90
    ELSE 88

\* the table role_bonuses of calculate_role_bonus
role_bonuses ==
    [r \in RoleSet |->
        CASE r = "Jungler" ->
               [core_skills |-> {<<"Decision", 80>>, <<"Vision", 80>>,
                                 <<"Communication", 80>>}, b_val |-> 15]
          [] r = "Mid Laner" ->
               [core_skills |-> {<<"Leadership", 80>>, <<"Vision", 80>>,
                                 <<"Flair", 80>>}, b_val |-> 15]
          [] r = "Bot Laner" ->
               [core_skills |-> {<<"Accuracy", 90>>, <<"Dexterity", 90>>},
                b_val |-> 20]
          [] r = "Support" ->
               [core_skills |-> {<<"Vision", 80>>, <<"Communication", 80>>,
                                 <<"Teamwork", 80>>}, b_val |-> 15]
          [] r = "Top Laner" ->
               [core_skills |-> {<<"Bravery", 80>>, <<"Composure", 80>>,
                                 <<"Concentration", 80>>}, b_val |-> 15]]

Min(a, b) == IF a <= b THEN a ELSE b
Max(a, b) == IF a >= b THEN a ELSE b

\* calculate_role_bonus with the thresholds compared by ==
calculate_role_bonus_equal(player, role) ==
    LET skills == player.skills
        bonus  == IF role \in DOMAIN role_bonuses
                     /\ \A c \in role_bonuses[role].core_skills :
                            SkillGet(skills, c[1]) = c[2]
                  THEN role_bonuses[role].b_val
                  ELSE 0
    IN  Min(bonus, 25)

\* calculate_role_bonus with the thresholds compared by >
calculate_role_bonus_strict(player, role) ==
    LET skills == player.skills
        bonus  == IF role \in DOMAIN role_bonuses
                     /\ \A c \in role_bonuses[role].core_skills :
                            SkillGet(skills, c[1]) > c[2]
                  THEN role_bonuses[role].b_val
                  ELSE 0
    IN  Min(bonus, 25)

\* calculate_role_bonus, in whole points
calculate_role_bonus(player, role) ==
    LET skills == player.skills
        bonus  == IF role \in DOMAIN role_bonuses
                     /\ \A c \in role_bonuses[role].core_skills :
                            SkillGet(skills, c[1]) >= c[2]
                  THEN role_bonuses[role].b_val
                  ELSE 0
    IN  Min(bonus, 25)

RECURSIVE SumSeq(_)
SumSeq(s) == IF s = <<>> THEN 0 ELSE Head(s) + SumSeq(Tail(s))

\* sum(self.apply_diminishing_returns(s) for s in [skills.get(k, 0) for k in names])
TransformedSum(skills, names) ==
    SumSeq([i \in 1..Len(names) |-> apply_diminishing_returns(SkillGet(skills, names[i]))])

\* round(x, 2) of the fraction num / den (den > 0, num >= 0), in hundredths.
\* Away from a tie the float result is the nearest hundredth.  At an exact
\* tie (..5 in the third decimal) the float that was actually computed lies a
\* rounding error above or below it, so either neighbour can come out: up says
\* which.
Round2(num, den, up) ==
    LET q == (100 * num) \div den
        r == (100 * num) % den
    IN  IF 2 * r < den THEN q
        ELSE IF 2 * r > den THEN q + 1
        ELSE IF up THEN q + 1 ELSE q

\* RoleTerms with the secondary bonus scaled to 10, not 15
RoleTerms_ten(player, role) ==
    LET criteria      == ROLES[role]
        n_primary     == Len(criteria.primary)
        n_secondary   == Len(criteria.secondary)
        den           == 1000 * n_primary * Max(n_secondary, 1)
        primary_score == TransformedSum(player.skills, criteria.primary)
        base          == IF n_primary > 0
                         THEN primary_score * calculate_age_multiplier(player.age)
                                  * Max(n_secondary, 1)
                         ELSE 0
        role_bonus    == calculate_role_bonus(player, role) * den
        secondary_score == TransformedSum(player.skills, criteria.secondary)
        secondary_bonus == IF n_secondary > 0
                           THEN Min(10 * den, 10 * secondary_score * n_primary)
                           ELSE 0
    IN  [den |-> den, base |-> base, role_bonus |-> role_bonus,
         secondary_bonus |-> secondary_bonus]

\* The terms of one role's percentage, over the common denominator den
RoleTerms(player, role) ==
    LET criteria      == ROLES[role]
        n_primary     == Len(criteria.primary)
        n_secondary   == Len(criteria.secondary)
        den           == 1000 * n_primary * Max(n_secondary, 1)
        primary_score == TransformedSum(player.skills, criteria.primary)
        \* base_percentage = primary_score / max_primary * 100 * age_multiplier
        base          == IF n_primary > 0
                         THEN primary_score * calculate_age_multiplier(player.age)
                                  * Max(n_secondary, 1)
                         ELSE 0
        role_bonus    == calculate_role_bonus(player, role) * den
        secondary_score == TransformedSum(player.skills, criteria.secondary)
        \* min(15, secondary_percentage / 100 * 15)
        secondary_bonus == IF n_secondary > 0
                           THEN Min(15 * den, 15 * secondary_score * n_primary)
                           ELSE 0
    IN  [den |-> den, base |-> base, role_bonus |-> role_bonus,
         secondary_bonus |-> secondary_bonus]

\* the final percentage without the clamp
Clamped_unclamped(player, role) ==
    LET t == RoleTerms(player, role)
    IN  t.base + t.role_bonus + t.secondary_bonus

\* max(0, min(final_percentage, 100)), over the denominator den
Clamped(player, role) ==
    LET t == RoleTerms(player, role)
        final_percentage == t.base + t.role_bonus + t.secondary_bonus
    IN  Max(0, Min(final_percentage, 100 * t.den))

\* The roles whose clamped value is an exact tie between two hundredths
TieRoles(player) ==
    {role \in RoleSet :
        LET den == RoleTerms(player, role).den
        IN  2 * ((100 * Clamped(player, role)) % den) = den}

\* calculate_role_percentages: role -> hundredths of a percent; up is the set
\* of roles whose tie the float arithmetic resolves upwards
calculate_role_percentages(player, up) ==
    [role \in RoleSet |->
        Round2(Clamped(player, role), RoleTerms(player, role).den, role \in up)]

\* Whether the scorer raises on the record: player["skills"] and player["age"]
\* are plain subscripts
ScorerRaises(player) == ~ ({"skills", "age"} \subseteq DOMAIN player)

-----------------------------------------------------------------------------
(* The scorer on its own: one player in, one result out                     *)

AgeSamples == {-3, 15, 16, 17, 18, 20, 22, 23, 25, 26, 28, 29, 35, 36, 60}
BucketAges == {16, 20, 24, 27, 36}
SkillSamples == {-40, 0, 50, 69, 70, 71, 79, 80, 85, 86, 89, 90, 95, 100, 130}
BaseSamples == {-40, 0, 50, 100}

\* The groups of skills a sample player is strong or weak in
FocusSets ==
    {{}} \cup {{k} : k \in SkillSet}
         \cup {SeqToSet(ROLES[r].primary) : r \in RoleSet}
         \cup {SeqToSet(ROLES[r].secondary) : r \in RoleSet}
         \cup {{c[1] : c \in role_bonuses[r].core_skills} : r \in RoleSet}

MissingSets == {{}, {"Vision"}, {"Accuracy", "Dexterity"}}

\* A skill map: value v on the skills of focus, base elsewhere, the skills of
\* missing absent
SkillMap(base, focus, v, missing) ==
    [k \in SkillSet \ missing |-> IF k \in focus THEN v ELSE base]

Player(name, age, skills) == [name |-> name, age |-> age, skills |-> skills]

ScoreInputs ==
    {Player(<<"x">>, a, SkillMap(b, {}, 0, {})) : a \in AgeSamples, b \in BaseSamples}
    \cup
    {Player(<<"x">>, a, SkillMap(b, f, v, m)) :
        a \in BucketAges, b \in BaseSamples, f \in FocusSets, v \in SkillSamples,
        m \in MissingSets}

Quiet ==
    /\ selected_player_index = None
    /\ current_mode = "add"
    /\ add_button = "normal"
    /\ update_button = "disabled"
    /\ cancel_button = "disabled"
    /\ player_tree = <<>>
    /\ disk = None
    /\ message = None
    /\ best_assignment = None
    /\ bench_players = None
    /\ history = None
    /\ argument = None
    /\ returned = None
    /\ tree_selection = None

InitScore ==
    /\ players \in {<<p>> : p \in ScoreInputs}
    /\ percentages = None
    /\ Quiet

\* percentages = self.calculate_role_percentages(player)
Score ==
    /\ percentages = None
    /\ \E up \in SUBSET TieRoles(players[1]) :
           percentages' = calculate_role_percentages(players[1], up)
    /\ UNCHANGED <<argument, returned, tree_selection>>
    /\ UNCHANGED <<players, selected_player_index, current_mode, add_button,
                   update_button, cancel_button, player_tree, disk, message,
                   best_assignment, bench_players, history>>

NextScore == Score

SpecScore == InitScore /\ [][NextScore]_vars

-----------------------------------------------------------------------------
(* Strings                                                                  *)

RECURSIVE lstrip(_)
lstrip(s) == IF s # <<>> /\ Head(s) = " " THEN lstrip(Tail(s)) ELSE s

Reverse(s) == [i \in 1..Len(s) |-> s[Len(s) + 1 - i]]

\* str.strip()
strip(s) == Reverse(lstrip(Reverse(lstrip(s))))

Digits == {"0", "1", "2", "3", "4", "5", "6", "7", "8", "9"}

\* Whether int(value) succeeds
IsInt(value) ==
    LET t == strip(value)
    IN  t # <<>> /\ \A i \in 1..Len(t) : t[i] \in Digits

\* What self.player_tree.item(row)['values'][0] gives back for a stored name:
\* Tk turns a value that reads as an integer into an int
convert_stringval(value) ==
    IF IsInt(value) THEN <<"int", strip(value)>> ELSE <<"str", value>>

-----------------------------------------------------------------------------
(* JSON text: json.dump writes a list of objects, each a list of            *)
(* (key, value) members in insertion order; json.load rebuilds the dicts    *)

KeyOrder == <<"name", "age", "skills", "percentages">>

\* a dict of numbers as the members of a JSON object, keys in the order of order
DumpMap(m, order) ==
    LET keys == SelectSeq(order, LAMBDA k : k \in DOMAIN m)
    IN  [i \in 1..Len(keys) |-> <<keys[i], m[keys[i]]>>]

\* a dump that writes the name and the age only
DumpRecord_noskills(p) ==
    LET keys == SelectSeq(<<"name", "age">>, LAMBDA k : k \in DOMAIN p)
    IN  [i \in 1..Len(keys) |-> <<keys[i], p[keys[i]]>>]

DumpRecord(p) ==
    LET keys == SelectSeq(KeyOrder, LAMBDA k : k \in DOMAIN p)
    IN  [i \in 1..Len(keys) |->
            <<keys[i],
              IF keys[i] = "skills" THEN DumpMap(p[keys[i]], SKILLS)
              ELSE IF keys[i] = "percentages" THEN DumpMap(p[keys[i]], RoleNames)
              ELSE p[keys[i]]>>]

\* json.dump(self.players, f, indent=4)
json_dump(ps) == <<"json", [i \in 1..Len(ps) |-> DumpRecord(ps[i])]>>

\* the value of key among the members of an object
Member(members, key) ==
    LET i == CHOOSE j \in 1..Len(members) : members[j][1] = key
    IN  members[i][2]

LoadMap(members) ==
    [k \in {members[i][1] : i \in 1..Len(members)} |-> Member(members, k)]

LoadRecord(members) ==
    [k \in {members[i][1] : i \in 1..Len(members)} |->
        IF k \in {"skills", "percentages"} THEN LoadMap(Member(members, k))
        ELSE Member(members, k)]

\* whether json.load raises on the text
json_raises(text) == text[1] # "json"

\* json.load(f)
json_load(text) == [i \in 1..Len(text[2]) |-> LoadRecord(text[2][i])]

-----------------------------------------------------------------------------
(* The roster editor                                                        *)

\* add_player is not taken on a roster of MaxPlayers records (MaxEdited where
\* nothing is saved or loaded)
MaxPlayers == 2
MaxEdited == 3

\* What the user can have typed into the form when a button is pressed
FormNames == {<<" ">>, <<"a", " ">>, <<"b">>, <<"1">>}
FormAges == {15, 16, 36}
FormSkills == {SkillMap(50, {}, 0, {})}

\* validate_input with the upper age limit off by one
validate_input_to36(name_var, age_var) ==
    LET name == strip(name_var)
        existing_names == {players[i].name : i \in
                              {j \in 1..Len(players) : <<j - 1>> # selected_player_index}}
    IN  IF name = <<>> THEN "Input Error"
        ELSE IF ~ (16 <= age_var /\ age_var <= 36)
             THEN "Input Error"
        ELSE IF name \in existing_names THEN "Input Error"
        ELSE "valid"

\* validate_input without the check of the existing names
validate_input_nodup(name_var, age_var) ==
    LET name == strip(name_var)
    IN  IF name = <<>> THEN "Input Error"
        ELSE IF ~ (16 <= age_var /\ age_var <= 35) THEN "Input Error"
        ELSE "valid"

\* validate_input: "valid", or the title of the error box it shows
validate_input(name_var, age_var) ==
    LET name == strip(name_var)
        existing_names == {players[i].name : i \in
                              {j \in 1..Len(players) : <<j - 1>> # selected_player_index}}
    IN  IF name = <<>> THEN "Input Error"
        ELSE IF ~ (16 <= age_var /\ age_var <= 35)
             THEN "Input Error"
        ELSE IF name \in existing_names THEN "Input Error"
        ELSE "valid"

get_player_data(name_var, age_var, skill_vars) ==
    [name |-> strip(name_var), age |-> age_var, skills |-> skill_vars]

\* The number of leading records refresh_player_list gets through
RECURSIVE Scored(_)
Scored(ps) ==
    IF ps = <<>> \/ ScorerRaises(Head(ps)) THEN 0 ELSE 1 + Scored(Tail(ps))

\* refresh_player_list with an empty search term: the rows it leaves in the
\* tree, and whether calculate_role_percentages raised on a record
refresh_player_list(ps) ==
    [rows   |-> [i \in 1..Scored(ps) |-> ps[i].name],
     raised |-> Scored(ps) < Len(ps)]

\* next((i for i, p in enumerate(self.players) if p["name"] == item_id), None)
IndexOf(ps, item_id) ==
    LET hits == {i \in 1..Len(ps) : <<"str", ps[i].name>> = item_id}
    IN  IF hits = {} THEN None
        ELSE <<(CHOOSE i \in hits : \A j \in hits : i <= j) - 1>>

\* self.player_tree.selection(): nothing, or a row of the tree
Selections == {None} \cup {<<r>> : r \in 1..Len(player_tree)}

item_id_of(selection) == convert_stringval(player_tree[selection[1]])

NoResult == best_assignment' = None /\ bench_players' = None

\* The history variable after a handler other than save_team and load_team
Track ==
    history' = IF history # None /\ players' # players
               THEN [history EXCEPT !.edited = TRUE, !.reloaded = FALSE]
               ELSE history

add_player(name_var, age_var, skill_vars) ==
    /\ add_button = "normal"
    /\ NoResult
    /\ UNCHANGED <<argument, returned, tree_selection>>
    /\ UNCHANGED <<selected_player_index, current_mode, add_button, update_button,
                   cancel_button, disk, percentages>>
    /\ LET valid == validate_input(name_var, age_var)
           player_data == get_player_data(name_var, age_var, skill_vars)
           shown == refresh_player_list(Append(players, player_data))
       IN  IF valid # "valid"
           THEN /\ message' = valid
                /\ UNCHANGED <<players, player_tree>>
           ELSE /\ players' = Append(players, player_data)
                /\ player_tree' = shown.rows
                /\ message' = IF shown.raised THEN "KeyError" ELSE "Success"
    /\ Track

\* the assignments of cancel_edit
cancel_edit_effect ==
    /\ current_mode' = "add"
    /\ selected_player_index' = None
    /\ add_button' = "normal"
    /\ update_button' = "disabled"
    /\ cancel_button' = "disabled"

update_player(name_var, age_var, skill_vars) ==
    /\ update_button = "normal"
    /\ NoResult
    /\ UNCHANGED <<argument, returned, tree_selection>>
    /\ UNCHANGED <<disk, percentages>>
    /\ LET valid == validate_input(name_var, age_var)
           player_data == get_player_data(name_var, age_var, skill_vars)
           i == selected_player_index[1] + 1
           ps == [players EXCEPT ![i] = player_data]
           shown == refresh_player_list(ps)
           keep == UNCHANGED <<selected_player_index, current_mode, add_button,
                               update_button, cancel_button>>
       IN  IF selected_player_index = None
           THEN message' = "" /\ keep /\ UNCHANGED <<players, player_tree>>
           ELSE IF valid # "valid"
           THEN message' = valid /\ keep /\ UNCHANGED <<players, player_tree>>
           ELSE IF i > Len(players)
           THEN message' = "IndexError" /\ keep /\ UNCHANGED <<players, player_tree>>
           ELSE /\ players' = ps
                /\ player_tree' = shown.rows
                /\ IF shown.raised
                   THEN message' = "KeyError" /\ keep
                   ELSE message' = "Success" /\ cancel_edit_effect
    /\ Track

edit_selected_player(selection) ==
    /\ NoResult
    /\ UNCHANGED <<argument, returned, tree_selection>>
    /\ UNCHANGED <<players, player_tree, disk, percentages>>
    /\ LET index == IndexOf(players, item_id_of(selection))
           keep == UNCHANGED <<current_mode, add_button, update_button, cancel_button>>
       IN  IF selection = None
           THEN /\ message' = "Selection Error"
                /\ keep /\ UNCHANGED selected_player_index
           ELSE /\ selected_player_index' = index
                /\ IF index = None
                   THEN message' = "" /\ keep
                   ELSE IF "skills" \notin DOMAIN players[index[1] + 1]
                   THEN message' = "KeyError" /\ keep
                   ELSE /\ message' = ""
                        /\ current_mode' = "edit"
                        /\ add_button' = "disabled"
                        /\ update_button' = "normal"
                        /\ cancel_button' = "normal"
    /\ Track

cancel_edit ==
    /\ cancel_button = "normal"
    /\ cancel_edit_effect
    /\ message' = ""
    /\ NoResult
    /\ UNCHANGED <<argument, returned, tree_selection>>
    /\ UNCHANGED <<players, player_tree, disk, percentages>>
    /\ Track

\* deletion by moving the last record into the gap
RemoveAt_swap(s, i) == [j \in 1..(Len(s) - 1) |-> IF j = i THEN s[Len(s)] ELSE s[j]]

RemoveAt(s, i) == [j \in 1..(Len(s) - 1) |-> IF j < i THEN s[j] ELSE s[j + 1]]

delete_player(selection, askyesno) ==
    /\ NoResult
    /\ UNCHANGED <<argument, returned, tree_selection>>
    /\ UNCHANGED <<disk, percentages>>
    /\ LET player_index == IndexOf(players, item_id_of(selection))
           ps == RemoveAt(players, player_index[1] + 1)
           shown == refresh_player_list(ps)
           keep == UNCHANGED <<selected_player_index, current_mode, add_button,
                               update_button, cancel_button>>
       IN  IF selection = None
           THEN /\ message' = "Selection Error"
                /\ keep /\ UNCHANGED <<players, player_tree>>
           ELSE IF player_index = None \/ ~ askyesno
           THEN message' = "" /\ keep /\ UNCHANGED <<players, player_tree>>
           ELSE /\ players' = ps
                /\ player_tree' = shown.rows
                /\ IF shown.raised
                   THEN message' = "KeyError" /\ keep
                   ELSE /\ message' = ""
                        /\ IF current_mode = "edit" /\ selected_player_index = player_index
                           THEN cancel_edit_effect
                           ELSE keep
    /\ Track

-----------------------------------------------------------------------------
(* Team evaluation                                                          *)

\* scipy.optimize.linear_sum_assignment on a square matrix: the column chosen
\* for each row, of minimal total cost.  Which of several minimal
\* assignments comes back is the library's choice: all of them are possible.
linear_sum_assignment(cost_matrix) ==
    LET n == Len(cost_matrix)
        cost(col_ind) == SumSeq([r \in 1..n |-> cost_matrix[r][col_ind[r]]])
        costs == {cost(col_ind) : col_ind \in Permutations(1..n)}
        least == CHOOSE c \in costs : \A d \in costs : c <= d
    IN  {col_ind \in Permutations(1..n) : cost(col_ind) = least}

\* profit_matrix: num_players x num_players, the first num_roles columns the
\* real roles
profit_matrix(ps) ==
    [r_idx \in 1..Len(ps) |->
        [c_idx \in 1..Len(ps) |->
            IF c_idx <= num_roles THEN ps[r_idx].percentages[RoleNames[c_idx]]
            ELSE 0]]

\* the profits handed to the solver as they are, not turned into costs
cost_matrix_of_profit(ps) == profit_matrix(ps)

cost_matrix_of(ps) ==
    [r_idx \in 1..Len(ps) |->
        [c_idx \in 1..Len(ps) |-> 10000 - profit_matrix(ps)[r_idx][c_idx]]]

\* the dict built from (row_ind, col_ind): a slot is None or (player, score),
\* the player given by its position in self.players
Interpret(ps, col_ind) ==
    [role \in RoleSet |->
        LET role_idx == CHOOSE c \in 1..num_roles : RoleNames[c] = role
            rows == {r \in 1..Len(ps) : col_ind[r] = role_idx}
        IN  IF rows = {} THEN None
            ELSE LET player_idx == CHOOSE r \in rows : TRUE
                 IN  [player |-> player_idx - 1,
                      score  |-> ps[player_idx].percentages[role]]]

\* a solver whose matrix code fails on every roster below num_roles, the
\* empty one included
find_optimal_assignment_hungarian_strict(ps) ==
    IF Len(ps) < num_roles
    THEN {[raised |-> "IndexError", assignment |-> None]}
    ELSE {[raised |-> "", assignment |-> Interpret(ps, col_ind)] :
             col_ind \in linear_sum_assignment(cost_matrix_of(ps))}

\* find_optimal_assignment_hungarian: the results it can end with
find_optimal_assignment_hungarian(ps) ==
    IF \E i \in 1..Len(ps) : "percentages" \notin DOMAIN ps[i]
    THEN {[raised |-> "KeyError", assignment |-> None]}
    ELSE IF 0 < Len(ps) /\ Len(ps) < num_roles
    THEN \* profit_matrix[r_idx, c_idx] with c_idx = num_players
         {[raised |-> "IndexError", assignment |-> None]}
    ELSE {[raised |-> "", assignment |-> Interpret(ps, col_ind)] :
             col_ind \in linear_sum_assignment(cost_matrix_of(ps))}

\* bench_players of show_evaluation_results: pi[0] == p compares the records
bench_players_of(ps, assignment) ==
    SelectSeq(ps, LAMBDA p :
        ~ \E role \in RoleSet :
            /\ assignment[role] # None
            /\ ps[assignment[role].player + 1] = p)

\* the loop rebuilding each record from its name and its percentages only
RECURSIVE Annotated_rebuilt(_)
Annotated_rebuilt(ps) ==
    IF ps = <<>> THEN {<<>>}
    ELSE LET p == Head(ps)
         IN  {<<[name |-> p.name,
                 percentages |-> calculate_role_percentages(p, up)]>> \o rest :
                 up \in SUBSET TieRoles(p), rest \in Annotated_rebuilt(Tail(ps))}

\* the loop keeping the percentages a record already carries
RECURSIVE Annotated_cached(_)
Annotated_cached(ps) ==
    IF ps = <<>> THEN {<<>>}
    ELSE LET p == Head(ps)
             keys == DOMAIN p \cup {"percentages"}
         IN  {<<[k \in keys |-> IF k = "percentages"
                                THEN (IF k \in DOMAIN p THEN p[k]
                                      ELSE calculate_role_percentages(p, up))
                                ELSE p[k]]>> \o rest :
                 up \in SUBSET TieRoles(p), rest \in Annotated_cached(Tail(ps))}

\* The ways the loop "player['percentages'] = calculate_role_percentages(player)"
\* can leave the records of ps
RECURSIVE Annotated(_)
Annotated(ps) ==
    IF ps = <<>> THEN {<<>>}
    ELSE LET p == Head(ps)
             keys == DOMAIN p \cup {"percentages"}
         IN  {<<[k \in keys |-> IF k = "percentages"
                                THEN calculate_role_percentages(p, up)
                                ELSE p[k]]>> \o rest :
                 up \in SUBSET TieRoles(p), rest \in Annotated(Tail(ps))}

evaluate_team ==
    /\ UNCHANGED <<argument, returned, tree_selection>>
    /\ UNCHANGED <<selected_player_index, current_mode, add_button, update_button,
                   cancel_button, player_tree, disk, percentages>>
    /\ IF players = <<>>
       THEN /\ message' = "Evaluate Error"
            /\ NoResult /\ UNCHANGED players
       ELSE IF Len(players) < num_roles
       THEN /\ message' = "Evaluate Error"
            /\ NoResult /\ UNCHANGED players
       ELSE IF Scored(players) < Len(players)
       THEN \* the scorer raises part-way through the loop
            /\ \E done \in Annotated(SubSeq(players, 1, Scored(players))) :
                   players' = done \o SubSeq(players, Scored(players) + 1, Len(players))
            /\ message' = "KeyError"
            /\ NoResult
       ELSE \E ps \in Annotated(players) :
                \E result \in find_optimal_assignment_hungarian(ps) :
                    /\ players' = ps
                    /\ best_assignment' = result.assignment
                    /\ bench_players' = bench_players_of(ps, result.assignment)
                    /\ message' = "Team Composition Analysis"
    /\ Track

-----------------------------------------------------------------------------
(* Save and load                                                            *)

\* The files the user can pick besides the one save_team wrote
FileUnreadable == <<"unreadable">>
FileGarbage == <<"garbage">>
FileMalformed ==
    json_dump(<<Player(<<"c">>, 20, SkillMap(50, {}, 0, {})),
                [name |-> <<"d">>, age |-> 20]>>)
FileDuplicates ==
    json_dump(<<Player(<<"c">>, 40, SkillMap(60, {"Vision"}, 90, {"Stamina"})),
                Player(<<"c">>, 40, SkillMap(60, {"Vision"}, 90, {"Stamina"}))>>)

ExternalFiles == {FileUnreadable, FileGarbage, FileMalformed, FileDuplicates}

\* asksaveasfilename: "" (cancelled), a path that can be written, one that cannot
save_team(file_path) ==
    /\ NoResult
    /\ UNCHANGED <<argument, returned, tree_selection>>
    /\ UNCHANGED <<players, selected_player_index, current_mode, add_button,
                   update_button, cancel_button, player_tree, percentages>>
    /\ IF players = <<>>
       THEN message' = "Save Error" /\ UNCHANGED disk
       ELSE IF file_path = ""
       THEN message' = "" /\ UNCHANGED disk
       ELSE IF file_path = "unwritable"
       THEN message' = "Error" /\ UNCHANGED disk
       ELSE message' = "Success" /\ disk' = json_dump(players)
    /\ history' = IF disk' # disk \/ message' = "Success"
                  THEN [saved |-> players, edited |-> FALSE, reloaded |-> FALSE]
                  ELSE history

\* askopenfilename: None (cancelled), or the content of the file picked
load_team(file) ==
    /\ NoResult
    /\ UNCHANGED <<argument, returned, tree_selection>>
    /\ UNCHANGED <<selected_player_index, current_mode, add_button, update_button,
                   cancel_button, disk, percentages>>
    /\ IF file = None
       THEN message' = "" /\ UNCHANGED <<players, player_tree>>
       ELSE IF file = FileUnreadable \/ json_raises(file)
       THEN message' = "Error" /\ UNCHANGED <<players, player_tree>>
       ELSE LET shown == refresh_player_list(json_load(file))
            IN  /\ players' = json_load(file)
                /\ player_tree' = shown.rows
                /\ message' = IF shown.raised THEN "Error"
                              ELSE "Success"
    /\ IF history # None /\ file = disk
       THEN history' = [history EXCEPT !.reloaded = TRUE]
       ELSE Track

-----------------------------------------------------------------------------
(* The application                                                          *)

Init ==
    /\ players = <<>>
    /\ percentages = None
    /\ Quiet

Next ==
    \/ \E n \in FormNames, a \in FormAges, k \in FormSkills :
           Len(players) < MaxPlayers /\ add_player(n, a, k)
    \/ \E n \in FormNames, a \in FormAges, k \in FormSkills : update_player(n, a, k)
    \/ \E sel \in Selections : edit_selected_player(sel)
    \/ cancel_edit
    \/ \E sel \in Selections, yes \in BOOLEAN : delete_player(sel, yes)
    \/ \E path \in {"", "unwritable", "team.json"} : save_team(path)
    \/ \E file \in {None} \cup ({disk} \ {None}) \cup ExternalFiles : load_team(file)
    \/ evaluate_team

Spec == Init /\ [][Next]_vars

\* The editing handlers alone: nothing is saved, loaded or evaluated
NextEdit ==
    \/ \E n \in FormNames, a \in FormAges, k \in FormSkills :
           Len(players) < MaxEdited /\ add_player(n, a, k)
    \/ \E n \in FormNames, a \in FormAges, k \in FormSkills : update_player(n, a, k)
    \/ \E sel \in Selections : edit_selected_player(sel)
    \/ cancel_edit
    \/ \E sel \in Selections, yes \in BOOLEAN : delete_player(sel, yes)

SpecEdit == Init /\ [][NextEdit]_vars

-----------------------------------------------------------------------------
(* Evaluation of sample teams: rosters are loaded from team files and       *)
(* evaluated, or handed to the solver directly                              *)

Primary(role) == SeqToSet(ROLES[role].primary)

\* Eight players: a specialist of each role, an all-rounder, a player without
\* any skill, and a rival for a role already covered
Pool ==
    <<Player(<<"t">>, 20, SkillMap(40, Primary("Top Laner"), 79, {})),
      Player(<<"j">>, 24, SkillMap(40, Primary("Jungler"), 85, {})),
      Player(<<"m">>, 27, SkillMap(40, Primary("Mid Laner"), 90, {})),
      Player(<<"b">>, 20, SkillMap(30, Primary("Bot Laner"), 95, {})),
      Player(<<"s">>, 30, SkillMap(40, Primary("Support"), 70, {})),
      Player(<<"u">>, 17, SkillMap(70, {}, 0, {})),
      Player(<<"z">>, 20, SkillMap(0, {}, 0, {})),
      Player(<<"w">>, 22, SkillMap(50, Primary("Bot Laner"), 89, {"Vision"}))>>

\* The largest sample roster
MaxRoster == 6

\* the members of Pool at the positions of set, in Pool's order
RECURSIVE Picked(_, _)
Picked(set, from) ==
    IF from > Len(Pool) THEN <<>>
    ELSE (IF from \in set THEN <<Pool[from]>> ELSE <<>>) \o Picked(set, from + 1)

SampleRosters ==
    {SubSeq(Pool, 1, n) : n \in 0..(num_roles - 1)}
    \cup {Picked(set, 1) : set \in {t \in SUBSET (1..Len(Pool)) :
                                       /\ Cardinality(t) >= num_roles
                                       /\ Cardinality(t) <= MaxRoster}}

\* A team file in which two records are the same
FileTwins ==
    json_dump(<<Pool[7], Pool[1], Pool[2], Pool[4], Pool[6], Pool[7]>>)

\* A team file whose records carry percentages that are not those of their
\* skills (a file saved after an evaluation and edited since)
FileStale ==
    json_dump([i \in 1..num_roles |->
        [k \in {"name", "age", "skills", "percentages"} |->
            IF k = "percentages" THEN [role \in RoleSet |-> 0] ELSE Pool[i][k]]])

TeamFiles == {json_dump(roster) : roster \in SampleRosters} \cup {FileTwins, FileStale}

\* find_optimal_assignment_hungarian called on the roster as it is once the
\* percentages are attached, and the bench show_evaluation_results derives
solve_roster ==
    /\ UNCHANGED <<argument, returned, tree_selection>>
    /\ UNCHANGED <<selected_player_index, current_mode, add_button, update_button,
                   cancel_button, player_tree, disk, percentages>>
    /\ Scored(players) = Len(players)
    /\ \E ps \in Annotated(players) :
           \E result \in find_optimal_assignment_hungarian(ps) :
               /\ players' = ps
               /\ message' = result.raised
               /\ IF result.raised = ""
                  THEN /\ best_assignment' = result.assignment
                       /\ bench_players' = bench_players_of(ps, result.assignment)
                  ELSE NoResult
    /\ Track

NextAssign ==
    \/ \E file \in TeamFiles : load_team(file)
    \/ evaluate_team
    \/ solve_roster

SpecAssign == Init /\ [][NextAssign]_vars

-----------------------------------------------------------------------------
(* Properties                                                               *)

Exceptions == {"KeyError", "IndexError"}

\* the summed score of an assignment
Total(assignment) ==
    SumSeq([c \in 1..num_roles |->
               IF assignment[RoleNames[c]] = None THEN 0
               ELSE assignment[RoleNames[c]].score])

\* The largest summed score over every one-to-one pairing of players of ps to
\* the roles from the c-th on, roles left vacant included, by exhaustive search
RECURSIVE BestTotal(_, _, _)
BestTotal(ps, c, used) ==
    IF c > num_roles THEN 0
    ELSE LET totals == {BestTotal(ps, c + 1, used)} \cup
                       {ps[i].percentages[RoleNames[c]] + BestTotal(ps, c + 1, used \cup {i}) :
                           i \in (1..Len(ps)) \ used}
         IN  CHOOSE t \in totals : \A u \in totals : t >= u

\* the positions in the roster of the players an assignment names
AssignedRows(assignment) ==
    {assignment[role].player + 1 : role \in {r \in RoleSet : assignment[r] # None}}

\* C1: the assignment evaluate_team computes has a summed score at least that
\* of every one-to-one pairing of roster players to roles
C1_Optimal ==
    message = "Team Composition Analysis" =>
        Total(best_assignment) >= BestTotal(players, 1, {})

C1_Witness ==
    /\ message = "Team Composition Analysis"
    /\ Len(players) > num_roles
    /\ Total(best_assignment) > 0
    /\ \E i \in 1..Len(players) :
           players[i].percentages["Top Laner"] > best_assignment["Top Laner"].score

\* C2: in an assignment no player holds two roles, and the score stored with a
\* player and a role is the percentage the scorer computes for that role from
\* the player's record as it is
C2_ValidAssignment ==
    best_assignment # None =>
        \A role \in RoleSet :
            best_assignment[role] # None =>
                /\ \A other \in RoleSet \ {role} :
                       best_assignment[other] # None =>
                           best_assignment[other].player # best_assignment[role].player
                /\ LET p == players[best_assignment[role].player + 1]
                   IN  \E up \in SUBSET TieRoles(p) :
                           best_assignment[role].score
                               = calculate_role_percentages(p, up)[role]

C2_Witness ==
    /\ message = "Team Composition Analysis"
    /\ \A role \in RoleSet : best_assignment[role] # None
    /\ Cardinality(AssignedRows(best_assignment)) = num_roles
    /\ \E role \in RoleSet : best_assignment[role].score > 0

\* C3: the bench and the assigned players partition the roster: every player
\* of the roster is either assigned or on the bench, never both, and none is
\* left out
C3_BenchPartition ==
    best_assignment # None =>
        /\ \A i \in 1..Len(players) :
               (i \in AssignedRows(best_assignment))
                   # (\E k \in 1..Len(bench_players) : bench_players[k] = players[i])
        /\ Len(bench_players) + Cardinality(AssignedRows(best_assignment))
               = Len(players)

\* C4: every percentage the scorer returns lies in [0, 100], whatever the age
\* and the skill values, absent, negative or above 100
C4_Bounded ==
    percentages # None =>
        \A role \in RoleSet : 0 <= percentages[role] /\ percentages[role] <= 10000

C4_Witness ==
    /\ percentages # None
    /\ LET skills == players[1].skills
       IN  /\ \E k \in DOMAIN skills : skills[k] < 0
           /\ \E k \in DOMAIN skills : skills[k] > 100
           /\ DOMAIN skills # SkillSet
    /\ ~ (16 <= players[1].age /\ players[1].age <= 35)
    /\ \E role \in RoleSet : percentages[role] = 0
    /\ \E role \in RoleSet : percentages[role] = 10000

\* C5: the scorer and the solver never raise, whatever the roster size
C5_NeverRaises == message \notin Exceptions

\* C6: on an empty roster the solver ends without error, with all five roles
\* vacant and an empty bench
C6_EmptyRoster ==
    [][(players = <<>> /\ solve_roster) =>
          /\ message' = ""
          /\ best_assignment' = [role \in RoleSet |-> None]
          /\ bench_players' = <<>>]_vars

C6_Witness ==
    /\ players = <<>>
    /\ best_assignment # None
    /\ \A role \in RoleSet : best_assignment[role] = None
    /\ bench_players = <<>>

\* C7: a load_team that reports a failure (the "Error" box, which only
\* save_team and load_team show) leaves self.players as it was
C7_FailedLoadKeepsRoster == [][message' = "Error" => players' = players]_vars

\* C8: once the file save_team wrote is loaded back, whatever was added,
\* updated or deleted in between, the roster is the roster that was saved
C8_RoundTrip ==
    (history # None /\ history.reloaded) => players = history.saved

C8_Witness ==
    /\ history # None
    /\ history.reloaded
    /\ history.edited
    /\ players = history.saved
    /\ Len(players) = 2
    /\ \A i \in 1..2 : DOMAIN players[i] = {"name", "age", "skills"}
    /\ players[1].name # players[2].name
    /\ players[1].age # players[2].age

\* C9: with the editing handlers alone, every name in the roster is non-empty
\* and no two records have the same name
C9_Names ==
    /\ \A i \in 1..Len(players) : players[i].name # <<>>
    /\ \A i, j \in 1..Len(players) : i # j => players[i].name # players[j].name

C9_Witness ==
    /\ Len(players) = 3
    /\ message = "Success"
    /\ current_mode = "add"
    /\ players[2].name = <<"1">>
    /\ players[3].name = <<"a">>

\* C10: age 20, Accuracy and Dexterity 95, every other skill 0: the Bot Laner
\* fit is 100.00, from a transformed primary of 88, an age multiplier of 1.0,
\* a role bonus of 20 and no secondary bonus, 108 before the clamp
C10_Player ==
    Player(<<"x">>, 20, SkillMap(0, {"Accuracy", "Dexterity"}, 95, {}))

C10_BotLaner ==
    (percentages # None /\ players = <<C10_Player>>) =>
        LET t == RoleTerms(players[1], "Bot Laner")
        IN  /\ apply_diminishing_returns(95) = 880
            /\ calculate_age_multiplier(players[1].age) = 100
            /\ t.base = 88 * t.den
            /\ t.role_bonus = 20 * t.den
            /\ t.secondary_bonus = 0
            /\ t.base + t.role_bonus + t.secondary_bonus = 108 * t.den
            /\ percentages["Bot Laner"] = 10000

C10_Witness ==
    /\ players = <<C10_Player>>
    /\ percentages # None
    /\ percentages["Bot Laner"] = 10000

-----------------------------------------------------------------------------
(* The scorer's functions called on their own                               *)

\* The ends of a skill slider: ttk.Scale(from_=0, to=100)
MinSkillValue == 0
MaxSkillValue == 100

\* The ages tried: every integer from -AgeSpan to AgeSpan
AgeSpan == 60

BonusBases == {0, 79, 80, 90, 100}
BonusValues == {0, 79, 80, 81, 89, 90, 91, 100}

\* The players calculate_role_bonus is tried on
BonusInputs ==
    {Player(<<"x">>, 20, SkillMap(b, f, v, m)) :
        b \in BonusBases, f \in FocusSets, v \in BonusValues, m \in MissingSets}

Untouched ==
    UNCHANGED <<players, selected_player_index, current_mode, add_button,
                update_button, cancel_button, player_tree, disk, message,
                best_assignment, bench_players, percentages, history, tree_selection>>

\* One function is tried per run: a call follows no call or a call of the same
\* function, and calculate_role_bonus, whose calls are not compared with one
\* another, is called once
Called(f) == argument # None /\ argument[1] = f

NoneOr(f) == IF argument = None THEN TRUE ELSE argument[1] = f

call_apply_diminishing_returns(skill_value) ==
    /\ NoneOr("apply_diminishing_returns")
    /\ argument' = <<"apply_diminishing_returns", skill_value>>
    /\ returned' = apply_diminishing_returns(skill_value)
    /\ Untouched

call_calculate_age_multiplier(age) ==
    /\ NoneOr("calculate_age_multiplier")
    /\ argument' = <<"calculate_age_multiplier", age>>
    /\ returned' = calculate_age_multiplier(age)
    /\ Untouched

call_calculate_role_bonus(player, role) ==
    /\ argument = None
    /\ argument' = <<"calculate_role_bonus", player, role>>
    /\ returned' = calculate_role_bonus(player, role)
    /\ Untouched

NextCalls ==
    \/ \E v \in MinSkillValue..MaxSkillValue : call_apply_diminishing_returns(v)
    \/ \E age \in (0 - AgeSpan)..AgeSpan : call_calculate_age_multiplier(age)
    \/ \E player \in BonusInputs, role \in RoleSet :
           call_calculate_role_bonus(player, role)

SpecCalls == Init /\ [][NextCalls]_vars

-----------------------------------------------------------------------------
\* C11: apply_diminishing_returns is strictly increasing on the integers
\* 0..100: of two calls, the one on the larger value returns the larger
\* result, also across the breakpoints 70 and 85; and the result on 100 is
\* below 100 (results are in tenths)
C11_Increasing ==
    [][/\ (Called("apply_diminishing_returns")
             /\ argument'[1] = "apply_diminishing_returns"
             /\ argument[2] < argument'[2]) => returned < returned'
       /\ (argument'[1] = "apply_diminishing_returns" /\ argument'[2] = 100)
             => returned' < 1000]_vars

\* a call on 86 after a call on 85, and a call on 100
C11_Witness ==
    /\ Called("apply_diminishing_returns")
    /\ argument[2] = 100
    /\ returned > apply_diminishing_returns(85)

\* C12: calculate_age_multiplier returns exactly 1.0 for ages 18..22, 0.98
\* for 23..25, 0.95 for 26..28, 0.90 under 18 and 0.88 over 28 (in
\* hundredths); so outside 18..22 the multiplier is below 1.0
C12_AgeBuckets ==
    Called("calculate_age_multiplier") =>
        LET age == argument[2]
        IN  /\ (age \in 18..22 => returned = 100)
            /\ (age \in 23..25 => returned = 98)
            /\ (age \in 26..28 => returned = 95)
            /\ (age < 18 => returned = 90)
            /\ (age > 28 => returned = 88)
            /\ (age \notin 18..22 => returned < 100)
            /\ 90 > 88

C12_Witness ==
    /\ Called("calculate_age_multiplier")
    /\ argument[2] = 25
    /\ returned = 98

\* C13 as stated: every age outside 16..35 gets the "> 28" bucket, 0.88
C13_OutOfRangeOver28 ==
    (Called("calculate_age_multiplier") /\ argument[2] \notin 16..35)
        => returned = 88

\* C13 as amended: an age outside 16..35 is not rejected; an age above 35
\* gets the "> 28" bucket (0.88) and an age below 16 the "under 18" bucket
\* (0.90)
C13_OutOfRangeTolerated ==
    (Called("calculate_age_multiplier") /\ argument[2] \notin 16..35)
        => /\ returned \in {88, 90}
           /\ (argument[2] > 35 => returned = 88)
           /\ (argument[2] < 16 => returned = 90)

C13_Witness ==
    /\ Called("calculate_age_multiplier")
    /\ argument[2] = 15
    /\ returned = 90

\* C14: calculate_role_bonus is the role's bonus value (20 for Bot Laner, 15
\* for the other roles) exactly when every raw skill value of the role's rule
\* is at or above its threshold, 0 otherwise, and never above 25
C14_RoleBonus ==
    Called("calculate_role_bonus") =>
        LET skills == argument[2].skills
            role   == argument[3]
            raw(k) == IF k \in DOMAIN skills THEN skills[k] ELSE 0
            meets  == \A c \in role_bonuses[role].core_skills : raw(c[1]) >= c[2]
            value  == IF role = "Bot Laner" THEN 20 ELSE 15
        IN  /\ (meets <=> returned = value)
            /\ (~ meets <=> returned = 0)
            /\ returned <= 25

\* the bonus granted on values equal to the thresholds
C14_Witness ==
    /\ Called("calculate_role_bonus")
    /\ argument[3] = "Jungler"
    /\ \A k \in {"Decision", "Vision", "Communication"} :
           k \in DOMAIN argument[2].skills /\ argument[2].skills[k] = 80
    /\ returned = 15

-----------------------------------------------------------------------------
(* Scoring and evaluation of loaded rosters                                 *)

\* A team file whose last record has no skills
FilePartly ==
    json_dump(SubSeq(Pool, 1, num_roles) \o <<[name |-> <<"d">>, age |-> 20]>>)

FrameFiles ==
    {json_dump(SubSeq(Pool, 1, n)) : n \in 0..MaxRoster} \cup {FileStale, FilePartly}

\* percentages = self.calculate_role_percentages(player) on the record at
\* position i of the roster (as refresh_player_list and the details window
\* call it)
score_record(i) ==
    /\ ~ ScorerRaises(players[i])
    /\ \E up \in SUBSET TieRoles(players[i]) :
           percentages' = calculate_role_percentages(players[i], up)
    /\ UNCHANGED <<players, selected_player_index, current_mode, add_button,
                   update_button, cancel_button, player_tree, disk, message,
                   best_assignment, bench_players, history, argument, returned,
                   tree_selection>>

NextFrame ==
    \/ \E file \in FrameFiles : load_team(file)
    \/ \E i \in 1..Len(players) : score_record(i)
    \/ evaluate_team

SpecFrame == Init /\ [][NextFrame]_vars

\* a record without its "percentages" entry
Strip(p) == [k \in DOMAIN p \ {"percentages"} |-> p[k]]

\* C15: a call of calculate_role_percentages changes no record and not the
\* roster; evaluate_team keeps the roster's length and order and every
\* record's name, age and skills: all it changes in a record is the
\* "percentages" entry
C15_Frame ==
    [][/\ (\E i \in 1..Len(players) : score_record(i)) => players' = players
       /\ evaluate_team =>
             /\ Len(players') = Len(players)
             /\ \A i \in 1..Len(players) : Strip(players'[i]) = Strip(players[i])]_vars

\* a record scored on its own, and then the team evaluated
C15_Witness ==
    /\ percentages # None
    /\ message = "Team Composition Analysis"
    /\ Len(players) > num_roles
    /\ \A i \in 1..Len(players) : "percentages" \in DOMAIN players[i]

-----------------------------------------------------------------------------
\* the record with every skill it omits present and equal to 0
Fill(p) ==
    [p EXCEPT !.skills = [k \in SkillSet \cup DOMAIN p.skills |->
                             IF k \in DOMAIN p.skills THEN p.skills[k] ELSE 0]]

\* C16: a skill missing from the skill map counts as 0 and is no error: the
\* percentages of a player who omits skills are percentages the same player
\* with those skills present and 0 gets, and the role bonus is decided alike
C16_MissingIsZero ==
    percentages # None =>
        LET p == players[1]
            q == Fill(p)
        IN  /\ percentages \in {calculate_role_percentages(q, up) :
                                   up \in SUBSET TieRoles(q)}
            /\ \A role \in RoleSet :
                   calculate_role_bonus(p, role) = calculate_role_bonus(q, role)

\* a player without the Support primary skill Vision, the other skills at 50
C16_Witness ==
    /\ percentages # None
    /\ "Vision" \notin DOMAIN players[1].skills
    /\ "Teamwork" \in DOMAIN players[1].skills
    /\ players[1].skills["Teamwork"] = 50
    /\ percentages["Support"] > 0

Abs(x) == IF x < 0 THEN 0 - x ELSE x

-----------------------------------------------------------------------------
\* C18: on every roster that has players, the solver's matrix is square of
\* side max(number of players, number of roles), so that each player has an
\* entry for each role
C18_SquareMatrix ==
    [][(solve_roster /\ players' # <<>>) =>
          /\ Len(profit_matrix(players')) = Max(Len(players'), num_roles)
          /\ \A r_idx \in 1..Len(players') : \A c_idx \in 1..num_roles :
                 c_idx \in DOMAIN profit_matrix(players')[r_idx]]_vars

\* C19: evaluate_team on fewer players than roles warns, computes no
\* assignment and leaves every record as it was; on num_roles players or more
\* it annotates every player and computes an assignment
C19_Threshold ==
    [][evaluate_team =>
          IF Len(players) < num_roles
          THEN /\ message' = "Evaluate Error"
               /\ best_assignment' = None
               /\ players' = players
          ELSE /\ \A i \in 1..Len(players') : "percentages" \in DOMAIN players'[i]
               /\ best_assignment' # None]_vars

\* C20: a successful add_player appends the new record and changes no other;
\* a successful update_player replaces the record at the edited position and
\* no other; a confirmed delete_player removes the record of the selected row
\* and keeps the others in their order
C20_InsertionOrder ==
    [][/\ \A n \in FormNames, a \in FormAges, k \in FormSkills :
            /\ (add_player(n, a, k) /\ message' = "Success")
                  => /\ Len(players') = Len(players) + 1
                     /\ \A j \in 1..Len(players) : players'[j] = players[j]
                     /\ players'[Len(players')].name = strip(n)
            /\ (update_player(n, a, k) /\ message' = "Success")
                  => /\ Len(players') = Len(players)
                     /\ \A j \in 1..Len(players) :
                            IF j = selected_player_index[1] + 1
                            THEN players'[j].name = strip(n)
                            ELSE players'[j] = players[j]
       /\ \A sel \in Selections :
            (sel # None /\ delete_player(sel, TRUE))
                  => \/ players' = players
                     \/ \E i \in 1..Len(players) :
                            /\ players[i].name = player_tree[sel[1]]
                            /\ Len(players') = Len(players) - 1
                            /\ \A j \in 1..Len(players') :
                                   players'[j] = IF j < i THEN players[j]
                                                 ELSE players[j + 1]]_vars

\* the second record being edited, the first one was deleted
C20_Witness ==
    /\ current_mode = "edit"
    /\ selected_player_index = <<1>>
    /\ Len(players) = 1
    /\ players[1].name = <<"b">>

-----------------------------------------------------------------------------
\* C21: on a roster of N >= 5 players the computed assignment leaves no role
\* vacant, also when every percentage is 0, and the bench holds exactly N - 5
\* players
C21_FullTeam ==
    (best_assignment # None /\ Len(players) >= num_roles) =>
        /\ \A role \in RoleSet : best_assignment[role] # None
        /\ Len(bench_players) = Len(players) - num_roles

\* C22: while a player is being edited, a confirmed delete_player of another
\* player leaves selected_player_index on the entry of the edited player, and
\* update_player never ends with an index out of range
C22_EditTargetStable ==
    [][/\ \A sel \in Selections :
            (/\ sel # None
             /\ current_mode = "edit"
             /\ selected_player_index # None
             /\ selected_player_index[1] < Len(players)
             /\ delete_player(sel, TRUE)
             /\ current_mode' = "edit")
            => /\ selected_player_index' # None
               /\ selected_player_index'[1] < Len(players')
               /\ players'[selected_player_index'[1] + 1]
                      = players[selected_player_index[1] + 1]
       /\ \A n \in FormNames, a \in FormAges, k \in FormSkills :
            update_player(n, a, k) => message' # "IndexError"]_vars

\* C23: selected_player_index is None exactly when current_mode is "add", and
\* in mode "edit" it is an index of the roster
C23_SelectionValid ==
    /\ (selected_player_index = None) <=> (current_mode = "add")
    /\ current_mode = "edit" =>
           /\ selected_player_index # None
           /\ 0 <= selected_player_index[1]
           /\ selected_player_index[1] < Len(players)

\* whether validate_input is to reject the form, as the claim words it
Rejected(name_var, age_var) ==
    \/ strip(name_var) = <<>>
    \/ age_var < 16
    \/ age_var > 35
    \/ \E j \in 1..Len(players) :
           /\ <<j - 1>> # selected_player_index
           /\ players[j].name = strip(name_var)

\* C24: add_player and update_player on a form validate_input rejects leave
\* the roster, current_mode and selected_player_index as they were, and a
\* record they store has an age in 16..35
C24_Rejection ==
    [][\A n \in FormNames, a \in FormAges, k \in FormSkills :
          (add_player(n, a, k) \/ update_player(n, a, k)) =>
              /\ Rejected(n, a) =>
                     /\ players' = players
                     /\ current_mode' = current_mode
                     /\ selected_player_index' = selected_player_index
              /\ players' # players =>
                     \E i \in 1..Len(players') :
                         /\ players'[i].name = strip(n)
                         /\ players'[i].age = a
                         /\ 16 <= a /\ a <= 35]_vars

\* an edit of the only player: the form with age 36 was rejected, if it was
\* tried, and the player is still being edited
C24_Witness ==
    /\ current_mode = "edit"
    /\ message = "Input Error"
    /\ Len(players) = 1
    /\ players[1].age = 16

\* C26: the roster evaluate_team hands to the solver has non-empty, pairwise
\* distinct names
C26_ValidatedNames ==
    message = "Team Composition Analysis" =>
        /\ \A i \in 1..Len(players) : players[i].name # <<>>
        /\ \A i, j \in 1..Len(players) : i # j => players[i].name # players[j].name

-----------------------------------------------------------------------------
(* The scorer called on a player and again after one skill was raised       *)

MonoValues == {0, 69, 70, 79, 80, 85, 89, 90, 100}
MonoBases == {0, 80}
\* At the base value 80 every rule with thresholds of 80 is met; the group is
\* the rule with thresholds of 90
MonoGroups == {{}, {c[1] : c \in role_bonuses["Bot Laner"].core_skills}}

\* Players of age 24 with one skill at v, the skills of a group at 90 and the
\* others at a base value
MonoInputs ==
    {Player(<<"x">>, 24,
            [s \in SkillSet |-> IF s = k THEN v ELSE IF s \in g THEN 90 ELSE b]) :
        k \in SkillSet, v \in MonoValues, g \in MonoGroups, b \in MonoBases}

call_calculate_role_percentages(player) ==
    /\ argument = None
    /\ argument' = <<"calculate_role_percentages", player>>
    /\ \E up \in SUBSET TieRoles(player) :
           returned' = calculate_role_percentages(player, up)
    /\ Untouched

\* the next call, on the same player with the skill raised to skill_value
call_with_raised_skill(skill, skill_value) ==
    /\ Called("calculate_role_percentages")
    /\ Len(argument) = 2
    /\ skill_value > argument[2].skills[skill]
    /\ LET player == [argument[2] EXCEPT !.skills[skill] = skill_value]
       IN  /\ argument' = <<"calculate_role_percentages", player, skill>>
           /\ \E up \in SUBSET TieRoles(player) :
                  returned' = calculate_role_percentages(player, up)
    /\ Untouched

NextMono ==
    \/ argument = None
          /\ \E player \in MonoInputs : call_calculate_role_percentages(player)
    \/ argument # None
          /\ \E skill \in SkillSet, v \in MonoValues : call_with_raised_skill(skill, v)

SpecMono == Init /\ [][NextMono]_vars

\* C25: at a fixed age, raising one skill within 0..100 lowers the
\* percentage of no role.  Where the two exact values are the same tie
\* between two hundredths the two calls compute the same number, and the
\* results are not compared.
C25_Monotone ==
    [][(Called("calculate_role_percentages") /\ Len(argument) = 2
          /\ Len(argument') = 3) =>
          \A role \in RoleSet :
              \/ /\ role \in TieRoles(argument[2])
                 /\ Clamped(argument[2], role) = Clamped(argument'[2], role)
              \/ returned[role] <= returned'[role]]_vars

\* Accuracy raised to the Bot Laner threshold, Dexterity above it
C25_Witness ==
    /\ Called("calculate_role_percentages")
    /\ Len(argument) = 3
    /\ argument[3] = "Accuracy"
    /\ argument[2].skills["Accuracy"] = 90
    /\ argument[2].skills["Dexterity"] = 90
    /\ argument[2].skills["Vision"] = 0
    /\ returned["Bot Laner"] > 9000

-----------------------------------------------------------------------------
(* V0.1.0 (quickteamcheck.py): the scorer and the assignment                *)
(* ROLES, SKILLS, apply_diminishing_returns, calculate_age_multiplier and   *)
(* the body of calculate_role_percentages are those of V0.2.0; the role     *)
(* bonus is tiered                                                          *)

\* all(skills.get(skill, 0) >= threshold for skill in names)
AllAtLeast(skills, names, threshold) ==
    \A k \in names : SkillGet(skills, k) >= threshold

\* the "if ... >= high: bonus += b_high elif ... >= 70: bonus += 10" ladder
Tier(skills, core_skills, high, b_high) ==
    IF AllAtLeast(skills, core_skills, high) THEN b_high
    ELSE IF AllAtLeast(skills, core_skills, 70) THEN 10
    ELSE 0

\* the second rule of a role: +8
Extra(skills, first, second) ==
    IF SkillGet(skills, first) >= 85 /\ SkillGet(skills, second) >= 80 THEN 8 ELSE 0

calculate_role_bonus_v010(player, role) ==
    LET skills == player.skills
        bonus ==
          CASE role = "Jungler" ->
                 Tier(skills, {"Decision", "Vision", "Communication"}, 80, 15)
                     + Extra(skills, "Anticipation", "Memory")
            [] role = "Mid Laner" ->
                 Tier(skills, {"Leadership", "Vision", "Flair"}, 80, 15)
                     + Extra(skills, "Anticipation", "Communication")
            [] role = "Bot Laner" ->
                 IF AllAtLeast(skills, {"Accuracy", "Dexterity"}, 90) THEN 20
                 ELSE Tier(skills, {"Accuracy", "Dexterity"}, 80, 15)
            [] role = "Support" ->
                 Tier(skills, {"Vision", "Communication", "Teamwork"}, 80, 15)
                     + Extra(skills, "Memory", "Anticipation")
            [] role = "Top Laner" ->
                 Tier(skills, {"Bravery", "Composure", "Concentration"}, 80, 15)
            [] OTHER -> 0
    IN  Min(bonus, 25)

\* max(0, min(final_percentage, 100)) of V0.1.0, over the denominator den
Clamped_v010(player, role) ==
    LET t == RoleTerms(player, role)
        final_percentage == t.base + calculate_role_bonus_v010(player, role) * t.den
                                + t.secondary_bonus
    IN  Max(0, Min(final_percentage, 100 * t.den))

TieRoles_v010(player) ==
    {role \in RoleSet :
        LET den == RoleTerms(player, role).den
        IN  2 * ((100 * Clamped_v010(player, role)) % den) = den}

calculate_role_percentages_v010(player, up) ==
    [role \in RoleSet |->
        Round2(Clamped_v010(player, role), RoleTerms(player, role).den, role \in up)]

\* the loop of evaluate_team
RECURSIVE Annotated_v010(_)
Annotated_v010(ps) ==
    IF ps = <<>> THEN {<<>>}
    ELSE LET p == Head(ps)
             keys == DOMAIN p \cup {"percentages"}
         IN  {<<[k \in keys |-> IF k = "percentages"
                                THEN calculate_role_percentages_v010(p, up)
                                ELSE p[k]]>> \o rest :
                 up \in SUBSET TieRoles_v010(p), rest \in Annotated_v010(Tail(ps))}

\* permutations(players, k): the ways to put k different players in a row
Arrangements(n, k) ==
    {perm \in [1..k -> 1..n] : \A a, b \in 1..k : a # b => perm[a] # perm[b]}

\* the assignment the loop body builds from perm: role i gets perm[i]
FromPerm(ps, perm) ==
    [role \in RoleSet |->
        LET i == CHOOSE c \in 1..num_roles : RoleNames[c] = role
        IN  IF i <= Len(perm)
            THEN [player |-> perm[i] - 1, score |-> ps[perm[i]].percentages[role]]
            ELSE None]

PermTotal(ps, perm) ==
    SumSeq([i \in 1..Len(perm) |-> ps[perm[i]].percentages[RoleNames[i]]])

\* greedy_assignment with the players marked used never excluded
RECURSIVE GreedyFrom_reuse(_, _, _, _, _)
GreedyFrom_reuse(ps, order, k, used_players, assignment) ==
    IF k > Len(order) THEN assignment
    ELSE LET role == RoleNames[order[k]]
             free == 1..Len(ps)
             best_index == CHOOSE i \in free :
                               \A j \in free :
                                   \/ ps[j].percentages[role] < ps[i].percentages[role]
                                   \/ ps[j].percentages[role] = ps[i].percentages[role]
                                          /\ i <= j
         IN  GreedyFrom_reuse(ps, order, k + 1, used_players \cup {best_index},
                   [assignment EXCEPT ![role] =
                       [player |-> best_index - 1,
                        score  |-> ps[best_index].percentages[role]]])

\* The second loop of greedy_assignment from the k-th role of order on: the
\* first of the best players not yet used
RECURSIVE GreedyFrom(_, _, _, _, _)
GreedyFrom(ps, order, k, used_players, assignment) ==
    IF k > Len(order) THEN assignment
    ELSE LET role == RoleNames[order[k]]
             free == (1..Len(ps)) \ used_players
         IN  IF free = {}
             THEN GreedyFrom(ps, order, k + 1, used_players, assignment)
             ELSE LET best_index == CHOOSE i \in free :
                          \A j \in free :
                              \/ ps[j].percentages[role] < ps[i].percentages[role]
                              \/ ps[j].percentages[role] = ps[i].percentages[role]
                                     /\ i <= j
                  IN  GreedyFrom(ps, order, k + 1, used_players \cup {best_index},
                          [assignment EXCEPT ![role] =
                              [player |-> best_index - 1,
                               score  |-> ps[best_index].percentages[role]]])

\* role_priority after the stable sort by the number of players at 60 or more
role_priority(ps) ==
    LET viable_count(c) ==
            Cardinality({i \in 1..Len(ps) : ps[i].percentages[RoleNames[c]] >= 6000})
        before(d, c) == \/ viable_count(d) < viable_count(c)
                        \/ viable_count(d) = viable_count(c) /\ d < c
    IN  [k \in 1..num_roles |->
            CHOOSE c \in 1..num_roles :
                Cardinality({d \in 1..num_roles : before(d, c)}) = k - 1]

greedy_assignment(ps) ==
    GreedyFrom(ps, role_priority(ps), 1, {}, [role \in RoleSet |-> None])

\* find_optimal_assignment: the assignments it can return.  The totals are
\* float sums of hundredths, so the first of several equal best totals is not
\* fixed by the exact values: each arrangement of the best total is possible.
find_optimal_assignment(ps) ==
    IF Len(ps) <= 5
    THEN LET perms == Arrangements(Len(ps), Min(Len(ps), num_roles))
         IN  {FromPerm(ps, perm) : perm \in
                 {q \in perms : \A o \in perms : PermTotal(ps, q) >= PermTotal(ps, o)}}
    ELSE {greedy_assignment(ps)}

\* load_team of V0.1.0: the same statements as in V0.2.0
load_team_v010(file) == load_team(file)

evaluate_team_v010 ==
    /\ UNCHANGED <<argument, returned, tree_selection>>
    /\ UNCHANGED <<selected_player_index, current_mode, add_button, update_button,
                   cancel_button, player_tree, disk, percentages>>
    /\ IF players = <<>>
       THEN /\ message' = "Evaluate Error"
            /\ NoResult /\ UNCHANGED players
       ELSE IF Scored(players) < Len(players)
       THEN /\ \E done \in Annotated_v010(SubSeq(players, 1, Scored(players))) :
                   players' = done \o SubSeq(players, Scored(players) + 1, Len(players))
            /\ message' = "KeyError"
            /\ NoResult
       ELSE \E ps \in Annotated_v010(players) :
                \E assignment \in find_optimal_assignment(ps) :
                    /\ players' = ps
                    /\ best_assignment' = assignment
                    /\ bench_players' = bench_players_of(ps, assignment)
                    /\ message' = "Team Composition Analysis"
    /\ Track

\* Sample rosters of V0.1.0: up to two players, five, and more than five
RostersV010 ==
    {Picked(set, 1) : set \in {t \in SUBSET (1..Len(Pool)) :
                                  \/ Cardinality(t) <= 2
                                  \/ /\ Cardinality(t) >= num_roles
                                     /\ Cardinality(t) <= MaxRoster}}

FilesV010 == {json_dump(roster) : roster \in RostersV010}

NextV010 ==
    \/ \E file \in FilesV010 : load_team_v010(file)
    \/ evaluate_team_v010

SpecV010 == Init /\ [][NextV010]_vars

\* C27: on a roster of at most 5 players V0.1.0's assignment is one-to-one
\* and its summed score is at least that of every one-to-one pairing of
\* roster players to roles
C27_BruteForceBest ==
    (message = "Team Composition Analysis" /\ Len(players) <= 5) =>
        /\ Cardinality(AssignedRows(best_assignment))
               = Cardinality({r \in RoleSet : best_assignment[r] # None})
        /\ Total(best_assignment) >= BestTotal(players, 1, {})

\* C28: on a roster of more than 5 players V0.1.0's greedy assignment gives
\* no player two roles and its summed score is at most the best of all
\* one-to-one pairings, while every assignment V0.2.0's solver can return on
\* the same percentages reaches that best
C28_GreedyAndExact ==
    (message = "Team Composition Analysis" /\ Len(players) > 5) =>
        /\ Cardinality(AssignedRows(best_assignment))
               = Cardinality({r \in RoleSet : best_assignment[r] # None})
        /\ Total(best_assignment) <= BestTotal(players, 1, {})
        /\ \A result \in find_optimal_assignment_hungarian(players) :
               /\ result.raised = ""
               /\ Total(result.assignment) = BestTotal(players, 1, {})

\* a roster on which the greedy assignment stays below the best pairing
C28_Witness ==
    /\ message = "Team Composition Analysis"
    /\ Len(players) > 5
    /\ Total(best_assignment) < BestTotal(players, 1, {})

-----------------------------------------------------------------------------
(* V0.1.0 (quickteamcheck.py): the editor.  The tree's <<TreeviewSelect>>   *)
(* event is bound to on_player_select, and edit and delete take the row     *)
(* number of the selected item.  The search term is empty.                  *)

\* validate_input of V0.1.0: the same checks as in V0.2.0
validate_input_v010(name_var, age_var) == validate_input(name_var, age_var)

\* refresh_player_list deletes every item of the tree, the selected one
\* included.  Whether Tk then sends <<TreeviewSelect>> depends on its
\* version; where it does, on_player_select finds no selection once the
\* handler is back in the event loop.
AfterRefresh(index) ==
    IF tree_selection = None THEN {index} ELSE {index, None}

\* The user selects a row of the tree, or clears the selection
on_player_select(sel) ==
    /\ sel # tree_selection
    /\ tree_selection' = sel
    /\ selected_player_index' = IF sel = None THEN None ELSE <<sel[1] - 1>>
    /\ message' = ""
    /\ NoResult
    /\ UNCHANGED <<argument, returned>>
    /\ UNCHANGED <<players, current_mode, add_button, update_button, cancel_button,
                   player_tree, disk, percentages>>
    /\ Track

add_player_v010(name_var, age_var, skill_vars) ==
    /\ add_button = "normal"
    /\ NoResult
    /\ UNCHANGED <<argument, returned>>
    /\ UNCHANGED <<current_mode, add_button, update_button, cancel_button, disk,
                   percentages>>
    /\ LET valid == validate_input_v010(name_var, age_var)
           player_data == get_player_data(name_var, age_var, skill_vars)
           shown == refresh_player_list(Append(players, player_data))
       IN  IF valid # "valid"
           THEN /\ message' = valid
                /\ UNCHANGED <<players, player_tree, tree_selection,
                               selected_player_index>>
           ELSE /\ players' = Append(players, player_data)
                /\ player_tree' = shown.rows
                /\ tree_selection' = None
                /\ selected_player_index' \in AfterRefresh(selected_player_index)
                /\ message' = IF shown.raised THEN "KeyError" ELSE "Success"
    /\ Track

update_player_v010(name_var, age_var, skill_vars) ==
    /\ update_button = "normal"
    /\ NoResult
    /\ UNCHANGED <<argument, returned>>
    /\ UNCHANGED <<disk, percentages>>
    /\ LET valid == validate_input_v010(name_var, age_var)
           player_data == get_player_data(name_var, age_var, skill_vars)
           i == selected_player_index[1] + 1
           ps == [players EXCEPT ![i] = player_data]
           shown == refresh_player_list(ps)
           keep == UNCHANGED <<selected_player_index, current_mode, add_button,
                               update_button, cancel_button>>
           same == UNCHANGED <<players, player_tree, tree_selection>>
       IN  IF selected_player_index = None
           THEN message' = "" /\ keep /\ same
           ELSE IF valid # "valid"
           THEN message' = valid /\ keep /\ same
           ELSE IF i > Len(players)
           THEN message' = "IndexError" /\ keep /\ same
           ELSE /\ players' = ps
                /\ player_tree' = shown.rows
                /\ tree_selection' = None
                /\ IF shown.raised
                   THEN /\ message' = "KeyError"
                        /\ selected_player_index' \in AfterRefresh(selected_player_index)
                        /\ UNCHANGED <<current_mode, add_button, update_button,
                                       cancel_button>>
                   ELSE message' = "Success" /\ cancel_edit_effect
    /\ Track

edit_selected_player_v010 ==
    /\ NoResult
    /\ UNCHANGED <<argument, returned>>
    /\ UNCHANGED <<players, player_tree, tree_selection, disk, percentages>>
    /\ IF tree_selection = None
       THEN /\ message' = "Selection Error"
            /\ UNCHANGED <<selected_player_index, current_mode, add_button,
                           update_button, cancel_button>>
       ELSE /\ selected_player_index' = <<tree_selection[1] - 1>>
            /\ IF "skills" \notin DOMAIN players[tree_selection[1]]
               THEN /\ message' = "KeyError"
                    /\ UNCHANGED <<current_mode, add_button, update_button,
                                   cancel_button>>
               ELSE /\ message' = ""
                    /\ current_mode' = "edit"
                    /\ add_button' = "disabled"
                    /\ update_button' = "normal"
                    /\ cancel_button' = "normal"
    /\ Track

cancel_edit_v010 ==
    /\ cancel_button = "normal"
    /\ cancel_edit_effect
    /\ message' = ""
    /\ NoResult
    /\ UNCHANGED <<argument, returned>>
    /\ UNCHANGED <<players, player_tree, tree_selection, disk, percentages>>
    /\ Track

delete_player_v010(askyesno) ==
    /\ NoResult
    /\ UNCHANGED <<argument, returned>>
    /\ UNCHANGED <<disk, percentages>>
    /\ LET player_index == <<tree_selection[1] - 1>>
           ps == RemoveAt(players, tree_selection[1])
           shown == refresh_player_list(ps)
           keep == UNCHANGED <<selected_player_index, current_mode, add_button,
                               update_button, cancel_button>>
           same == UNCHANGED <<players, player_tree, tree_selection>>
       IN  IF tree_selection = None
           THEN message' = "Selection Error" /\ keep /\ same
           ELSE IF ~ askyesno
           THEN message' = "" /\ keep /\ same
           ELSE /\ players' = ps
                /\ player_tree' = shown.rows
                /\ tree_selection' = None
                /\ message' = IF shown.raised THEN "KeyError" ELSE ""
                /\ IF ~ shown.raised /\ current_mode = "edit"
                        /\ selected_player_index = player_index
                   THEN cancel_edit_effect
                   ELSE /\ selected_player_index' \in AfterRefresh(selected_player_index)
                        /\ UNCHANGED <<current_mode, add_button, update_button,
                                       cancel_button>>
    /\ Track

NextEditV010 ==
    \/ \E sel \in Selections : on_player_select(sel)
    \/ \E n \in FormNames, a \in FormAges, k \in FormSkills :
           Len(players) < MaxEdited /\ add_player_v010(n, a, k)
    \/ \E n \in FormNames, a \in FormAges, k \in FormSkills : update_player_v010(n, a, k)
    \/ edit_selected_player_v010
    \/ cancel_edit_v010
    \/ \E yes \in BOOLEAN : delete_player_v010(yes)

SpecEditV010 == Init /\ [][NextEditV010]_vars

\* C29: in V0.1.0, whatever rows are selected and whatever is added, edited,
\* updated, cancelled and deleted, no two records of the roster have the
\* same name
C29_DistinctNames_v010 ==
    \A i \in 1..Len(players) :
        Cardinality({j \in 1..Len(players) : players[j].name = players[i].name}) = 1
====
